---- MODULE Spec2Model ----
(***************************************************************************)
(* A model of eksauth.go: the EKS token source.                            *)
(*                                                                         *)
(* Token() picks a default expiry, asks the STS presign client for a       *)
(* presigned GetCallerIdentity request, routes the signing through         *)
(* wrappedSignerV4 (which lowers the expiry to the expiration of the       *)
(* credentials that signed), and encodes the presigned URI as the token.   *)
(*                                                                         *)
(* Times are whole seconds since the zero time.Time; strings that are      *)
(* encoded (the URI, the access token) are sequences of byte values.       *)
(* The presign client and the signer it delegates to are the environment:  *)
(* they choose the credentials, may fail, and may sign more than once.     *)
(***************************************************************************)
EXTENDS Integers, Sequences, FiniteSets

VARIABLES
    ts,       \* the TokenSource: ClusterName and Client
    now,      \* the clock, time.Now()
    pc,       \* where each Token() invocation stands
    cell,     \* the heap of time.Time cells, by address
    expiry,   \* the address of each invocation's local variable expiry
    opts,     \* the sts.PresignOptions of each invocation's presign call
    req,      \* the headers of the request the client has built
    frame,    \* the PresignHTTP call in progress or just returned
    nsign,    \* signing calls made so far in the invocation
    used,     \* the credentials passed to those signing calls
    start,    \* the clock when the invocation started
    cret,     \* what PresignGetCallerIdentity returned
    result,   \* what Token() returned
    after,    \* the invocations that had returned when this one started
    calls     \* Token() invocations started so far

vars == <<ts, now, pc, cell, expiry, opts, req, frame, nsign, used, start,
          cret, result, after, calls>>

(***************************************************************************)
(* Bounds of the model.                                                    *)
(***************************************************************************)
MaxNow == 2      \* the clock runs from 1 to MaxNow
MaxSigns == 2    \* signing calls the client may make in one invocation
MaxCalls == 3    \* Token() invocations started in one behaviour
MaxURILen == 4   \* bytes of a URI an arbitrary signer returns

(***************************************************************************)
(* Program constants.                                                      *)
(***************************************************************************)
DefaultExpiration == 900        \* 15 * time.Minute, in seconds
ZeroTime == 0                   \* time.Time{}: IsZero() holds of it only

\* the goroutines that call Token()
Invocations == {1, 2}
Nil == "nil"

\* "" and "a" as the bytes of the string
ClusterNames == {<<>>, <<97>>}

\* no expiration, one long past, and every time from just before the
\* first target (1 + DefaultExpiration) to just after the last
ExpiresValues ==
    {ZeroTime, 1} \cup (DefaultExpiration..(DefaultExpiration + MaxNow + 1))

\* aws.Credentials, as far as the code reads it
Credentials == [CanExpire : BOOLEAN, Expires : ExpiresValues]

\* the credentials of the concurrent callers
ConcCredentials ==
    {[CanExpire |-> FALSE, Expires |-> ZeroTime],
     [CanExpire |-> TRUE, Expires |-> DefaultExpiration]}

HeaderNames == {"X-K8s-Aws-Id", "X-Amz-Expires"}
NoHeader == [h \in HeaderNames |-> <<>>]

\* "60" as bytes
Sixty == <<54, 48>>

(***************************************************************************)
(* base64.RawURLEncoding: RFC 4648 section 5, without padding.             *)
(***************************************************************************)
\* the URL-safe alphabet A-Z a-z 0-9 - _ , as character codes
encodeURL ==
    [k \in 0..63 |->
        IF k < 26 THEN 65 + k
        ELSE IF k < 52 THEN 97 + (k - 26)
        ELSE IF k < 62 THEN 48 + (k - 52)
        ELSE IF k = 62 THEN 45 ELSE 95]

\* the standard alphabet ends in + / instead
encodeStd == [k \in 0..63 |-> IF k = 62 THEN 43 ELSE IF k = 63 THEN 47 ELSE encodeURL[k]]

PadChar == 61   \* '='

RECURSIVE EncodeWith(_, _, _)
EncodeWith(alphabet, pad, src) ==
    LET n == Len(src) IN
    IF n = 0 THEN <<>>
    ELSE IF n = 1 THEN
        <<alphabet[src[1] \div 4], alphabet[(src[1] % 4) * 16]>> \o pad \o pad
    ELSE IF n = 2 THEN
        <<alphabet[src[1] \div 4],
          alphabet[(src[1] % 4) * 16 + (src[2] \div 16)],
          alphabet[(src[2] % 16) * 4]>> \o pad
    ELSE
        <<alphabet[src[1] \div 4],
          alphabet[(src[1] % 4) * 16 + (src[2] \div 16)],
          alphabet[(src[2] % 16) * 4 + (src[3] \div 64)],
          alphabet[src[3] % 64]>> \o EncodeWith(alphabet, pad, SubSeq(src, 4, n))

EncodeToStringPadded(src) == EncodeWith(encodeStd, <<PadChar>>, src)

\* base64.RawURLEncoding.EncodeToString
EncodeToString(src) == EncodeWith(encodeURL, <<>>, src)

\* the 6-bit value of a character of the URL-safe alphabet
decodeURL(c) == CHOOSE k \in 0..63 : encodeURL[k] = c

\* base64.RawURLEncoding.DecodeString, on well-formed input
RECURSIVE DecodeString(_)
DecodeString(s) ==
    LET n == Len(s)
        d(j) == decodeURL(s[j])
    IN
    IF n < 2 THEN <<>>
    ELSE IF n = 2 THEN <<d(1) * 4 + (d(2) \div 16)>>
    ELSE IF n = 3 THEN
        <<d(1) * 4 + (d(2) \div 16), (d(2) % 16) * 16 + (d(3) \div 4)>>
    ELSE
        <<d(1) * 4 + (d(2) \div 16),
          (d(2) % 16) * 16 + (d(3) \div 4),
          (d(3) % 4) * 64 + d(4)>> \o DecodeString(SubSeq(s, 5, n))

\* "k8s-aws-v1."
TokenPrefix == <<107, 56, 115, 45, 97, 119, 115, 45, 118, 49, 46>>

AccessTokenOfShort(url) == TokenPrefix \o EncodeToString(SubSeq(url, 1, Len(url) - 1))

\* eksauth.go line 73
AccessTokenOf(url) == TokenPrefix \o EncodeToString(url)

(***************************************************************************)
(* wrappedSignerV4.PresignHTTP, lines 35-39: the guard of the assignment   *)
(* to *w.target and the value the target has afterwards.                   *)
(***************************************************************************)
LowersAfter(target, credentials) ==
    /\ credentials.CanExpire
    /\ credentials.Expires # ZeroTime
    /\ credentials.Expires > target

LowersAnyCredentials(target, credentials) ==
    /\ credentials.Expires # ZeroTime
    /\ credentials.Expires < target

LowersZero(target, credentials) ==
    /\ credentials.CanExpire
    /\ credentials.Expires < target

Lowers(target, credentials) ==
    /\ credentials.CanExpire
    /\ credentials.Expires # ZeroTime
    /\ credentials.Expires < target

TargetAfterLast(target, credentials) ==
    IF credentials.CanExpire /\ credentials.Expires # ZeroTime
    THEN credentials.Expires ELSE target

TargetAfter(target, credentials) ==
    IF Lowers(target, credentials) THEN credentials.Expires ELSE target

(***************************************************************************)
(* The delegate signer (sts.HTTPPresignerV4 of the SDK).  The signed URI   *)
(* is a function of what is signed: the request's headers and the signing  *)
(* time.  It stands for the SigV4 query string, whose X-Amz-Date and       *)
(* signature are determined by exactly these inputs (all credentials of    *)
(* the model carry the same key material); it is injective, the most a     *)
(* signature can distinguish.  X-Amz-Date has a resolution of one second,  *)
(* the unit of the model's clock: two signing calls between which the      *)
(* clock does not tick sign the same timestamp.                            *)
(***************************************************************************)
RECURSIVE Digits(_)
Digits(n) == IF n < 10 THEN <<48 + n>> ELSE Digits(n \div 10) \o <<48 + (n % 10)>>

Flatten(values) == IF values = <<>> THEN <<>> ELSE values[1]

SignedURI(r, signingTime) ==
    <<63>> \o Flatten(r["X-K8s-Aws-Id"]) \o <<38>> \o Digits(signingTime)

(***************************************************************************)
(* Token(), lines 51-76, and the presign client it calls.                  *)
(***************************************************************************)
NoOptions == [ClientOptions |-> <<>>, Presigner |-> <<>>]
NoReturn == [signedURI |-> <<>>, err |-> Nil]
NoFrame == [credentials |-> [CanExpire |-> FALSE, Expires |-> ZeroTime],
            r |-> NoHeader, signingTime |-> ZeroTime, before |-> ZeroTime,
            writes |-> 0, delegated |-> FALSE,
            dret |-> NoReturn, ret |-> NoReturn]
NoRequest == [URL |-> <<>>, err |-> Nil]
NoResult == [tok |-> <<>>, err |-> Nil]

SharedCell(i) == 1

\* line 52: expiry is a local variable, a new cell in every invocation
NewCell(i) == i

APIOptionsLong(clusterName) ==
    << <<"X-K8s-Aws-Id", clusterName>>, <<"X-Amz-Expires", <<57, 48, 48>> >> >>

\* lines 58-61: the two smithyhttp.AddHeaderValue options
APIOptions(clusterName) ==
    << <<"X-K8s-Aws-Id", clusterName>>, <<"X-Amz-Expires", Sixty>> >>

\* smithyhttp.AddHeaderValue: Header.Add of one value
AddHeaderValue(header, option) ==
    [header EXCEPT ![option[1]] = Append(@, option[2])]

RECURSIVE ApplyOptions(_, _)
ApplyOptions(options, header) ==
    IF options = <<>> THEN header
    ELSE ApplyOptions(Tail(options), AddHeaderValue(header, options[1]))

WrapperReturnMasked(dret) == [dret EXCEPT !.err = Nil]

\* line 40: the delegate's result is returned as it is
WrapperReturn(dret) == dret

TokenResultPartial(r, e) ==
    [tok |-> << [AccessToken |-> AccessTokenOf(r.URL), Expiry |-> e] >>,
     err |-> r.err]

\* lines 69-75
TokenResult(r, e) ==
    IF r.err # Nil
    THEN [tok |-> <<>>, err |-> r.err]
    ELSE [tok |-> << [AccessToken |-> AccessTokenOf(r.URL), Expiry |-> e] >>,
          err |-> Nil]

Init ==
    /\ ts \in [ClusterName : ClusterNames, Client : {"client"}]
    /\ now = 1
    /\ pc = [i \in Invocations |-> "idle"]
    /\ cell = [a \in Invocations |-> ZeroTime]
    /\ expiry = [i \in Invocations |-> NewCell(i)]
    /\ opts = [i \in Invocations |-> NoOptions]
    /\ req = [i \in Invocations |-> NoHeader]
    /\ frame = [i \in Invocations |-> NoFrame]
    /\ nsign = [i \in Invocations |-> 0]
    /\ used = [i \in Invocations |-> {}]
    /\ start = [i \in Invocations |-> ZeroTime]
    /\ cret = [i \in Invocations |-> NoRequest]
    /\ result = [i \in Invocations |-> NoResult]
    /\ after = [i \in Invocations |-> {}]
    /\ calls = 0

\* time passes
Tick ==
    /\ now < MaxNow
    /\ now' = now + 1
    /\ UNCHANGED <<ts, pc, cell, expiry, opts, req, frame, nsign, used,
                   start, cret, result, after, calls>>

\* lines 52-53: Token() is entered, expiry is set, the client is called
Token_Begin(i) ==
    /\ pc[i] \in {"idle", "done"}
    /\ calls < MaxCalls
    /\ calls' = calls + 1
    /\ expiry' = [expiry EXCEPT ![i] = NewCell(i)]
    /\ cell' = [cell EXCEPT ![NewCell(i)] = now + DefaultExpiration]
    /\ start' = [start EXCEPT ![i] = now]
    /\ used' = [used EXCEPT ![i] = {}]
    /\ nsign' = [nsign EXCEPT ![i] = 0]
    /\ cret' = [cret EXCEPT ![i] = NoRequest]
    /\ result' = [result EXCEPT ![i] = NoResult]
    /\ after' = [j \in Invocations |->
                    IF j = i THEN {k \in Invocations \ {i} : pc[k] = "done"}
                    ELSE after[j] \ {i}]
    /\ pc' = [pc EXCEPT ![i] = "options"]
    /\ UNCHANGED <<ts, now, opts, req, frame>>

\* lines 56-67: the client runs the option function
PresignOptions(i) ==
    /\ pc[i] = "options"
    /\ opts' = [opts EXCEPT ![i] =
                  [ClientOptions |-> APIOptions(ts.ClusterName),
                   Presigner |-> << [target |-> expiry[i]] >> \o @.Presigner]]
    /\ pc' = [pc EXCEPT ![i] = "build"]
    /\ UNCHANGED <<ts, now, cell, expiry, req, frame, nsign, used, start,
                   cret, result, after, calls>>

\* the client builds the request: the API options add their headers
Client_Build(i) ==
    /\ pc[i] = "build"
    /\ req' = [req EXCEPT ![i] = ApplyOptions(opts[i].ClientOptions, NoHeader)]
    /\ pc' = [pc EXCEPT ![i] = "sign"]
    /\ UNCHANGED <<ts, now, cell, expiry, opts, frame, nsign, used, start,
                   cret, result, after, calls>>

\* building the request fails
Client_BuildFail(i) ==
    /\ pc[i] = "build"
    /\ cret' = [cret EXCEPT ![i] = [URL |-> <<>>, err |-> "ErrBuild"]]
    /\ pc' = [pc EXCEPT ![i] = "ret"]
    /\ UNCHANGED <<ts, now, cell, expiry, opts, req, frame, nsign, used,
                   start, result, after, calls>>

\* the client signs: it calls opts.Presigner.PresignHTTP with the
\* credentials it retrieved and the current time, and the wrapper lowers
\* its target to the credentials' expiration (lines 30-39)
PresignHTTP_Check(i, credentials) ==
    /\ pc[i] \in {"sign", "signed"}
    /\ nsign[i] < MaxSigns
    /\ Len(opts[i].Presigner) = 1
    /\ nsign' = [nsign EXCEPT ![i] = @ + 1]
    /\ used' = [used EXCEPT ![i] = @ \cup {credentials}]
    /\ LET w == opts[i].Presigner[1] IN
          /\ cell' = [cell EXCEPT ![w.target] = TargetAfter(@, credentials)]
          /\ frame' = [frame EXCEPT ![i] =
                         [NoFrame EXCEPT
                            !.credentials = credentials,
                            !.r = req[i],
                            !.signingTime = now,
                            !.before = cell[w.target],
                            !.writes = IF Lowers(cell[w.target], credentials)
                                       THEN 1 ELSE 0]]
    /\ pc' = [pc EXCEPT ![i] = "delegate"]
    /\ UNCHANGED <<ts, now, expiry, opts, req, start, cret, result, after,
                   calls>>

\* line 40: the wrapped signer signs, or fails, and its result is returned
PresignHTTP_Delegate(i, err) ==
    /\ pc[i] = "delegate"
    /\ LET dret == IF err = Nil
                   THEN [signedURI |-> SignedURI(frame[i].r, frame[i].signingTime),
                         err |-> Nil]
                   ELSE [signedURI |-> <<>>, err |-> err]
       IN frame' = [frame EXCEPT ![i].delegated = TRUE,
                                 ![i].dret = dret,
                                 ![i].ret = WrapperReturn(dret)]
    /\ pc' = [pc EXCEPT ![i] = "signed"]
    /\ UNCHANGED <<ts, now, cell, expiry, opts, req, nsign, used, start,
                   cret, result, after, calls>>

\* line 40 with any other sts.HTTPPresignerV4 behind the wrapper: it may
\* return any URI
PresignHTTP_DelegateAny(i, uri) ==
    /\ pc[i] = "delegate"
    /\ LET dret == [signedURI |-> uri, err |-> Nil]
       IN frame' = [frame EXCEPT ![i].delegated = TRUE,
                                 ![i].dret = dret,
                                 ![i].ret = WrapperReturn(dret)]
    /\ pc' = [pc EXCEPT ![i] = "signed"]
    /\ UNCHANGED <<ts, now, cell, expiry, opts, req, nsign, used, start,
                   cret, result, after, calls>>

\* PresignGetCallerIdentity returns the presigned request, or the failure
\* of the signing as an operation error
Client_Return(i) ==
    /\ pc[i] = "signed"
    /\ cret' = [cret EXCEPT ![i] =
                  IF frame[i].ret.err = Nil
                  THEN [URL |-> frame[i].ret.signedURI, err |-> Nil]
                  ELSE [URL |-> <<>>, err |-> "OperationError"]]
    /\ pc' = [pc EXCEPT ![i] = "ret"]
    /\ UNCHANGED <<ts, now, cell, expiry, opts, req, frame, nsign, used,
                   start, result, after, calls>>

\* lines 69-75: Token() returns; its locals go out of scope
Token_Return(i) ==
    /\ pc[i] = "ret"
    /\ result' = [result EXCEPT ![i] = TokenResult(cret[i], cell[expiry[i]])]
    /\ opts' = [opts EXCEPT ![i] = NoOptions]
    /\ req' = [req EXCEPT ![i] = NoHeader]
    /\ frame' = [frame EXCEPT ![i] = NoFrame]
    /\ pc' = [pc EXCEPT ![i] = "done"]
    /\ UNCHANGED <<ts, now, cell, expiry, nsign, used, start, cret, after,
                   calls>>

SignErrors == {Nil, "ErrSign"}

\* One caller calls Token() again and again, each call after the last has
\* returned, as oauth2.ReuseTokenSourceWithExpiry does under its lock.
Next ==
    \/ Tick
    \/ Token_Begin(1)
    \/ PresignOptions(1)
    \/ Client_Build(1)
    \/ Client_BuildFail(1)
    \/ \E credentials \in Credentials : PresignHTTP_Check(1, credentials)
    \/ \E err \in SignErrors : PresignHTTP_Delegate(1, err)
    \/ Client_Return(1)
    \/ Token_Return(1)

Spec == Init /\ [][Next]_vars

\* Two callers use the TokenSource directly and concurrently.
NextConc ==
    \/ Tick
    \/ \E i \in Invocations : Token_Begin(i)
    \/ \E i \in Invocations : PresignOptions(i)
    \/ \E i \in Invocations : Client_Build(i)
    \/ \E i \in Invocations : Client_BuildFail(i)
    \/ \E i \in Invocations : \E credentials \in ConcCredentials :
          PresignHTTP_Check(i, credentials)
    \/ \E i \in Invocations : \E err \in SignErrors : PresignHTTP_Delegate(i, err)
    \/ \E i \in Invocations : Client_Return(i)
    \/ \E i \in Invocations : Token_Return(i)

SpecConc == Init /\ [][NextConc]_vars

\* bytes that reach every corner of the alphabet: 0xFB and 0xFF encode to
\* the characters 62 and 63
ByteSample == {0, 97, 251, 255}

RECURSIVE SeqsUpTo(_, _)
SeqsUpTo(S, n) ==
    IF n = 0 THEN {<<>>}
    ELSE LET shorter == SeqsUpTo(S, n - 1)
         IN shorter \cup {Append(q, b) : q \in shorter, b \in S}

URIs == SeqsUpTo(ByteSample, MaxURILen)

StaticCredentials == [CanExpire |-> FALSE, Expires |-> ZeroTime]

\* One caller, static credentials, a signer that returns any URI.
NextEnc ==
    \/ Token_Begin(1)
    \/ PresignOptions(1)
    \/ Client_Build(1)
    \/ PresignHTTP_Check(1, StaticCredentials)
    \/ \E uri \in URIs : PresignHTTP_DelegateAny(1, uri)
    \/ Client_Return(1)
    \/ Token_Return(1)

SpecEnc == Init /\ [][NextEnc]_vars

\* every variable has a value of its kind
TypeOK ==
    /\ ts.ClusterName \in ClusterNames
    /\ now \in 1..MaxNow
    /\ \A i \in Invocations :
          /\ pc[i] \in {"idle", "options", "build", "sign", "delegate",
                        "signed", "ret", "done"}
          /\ expiry[i] \in Invocations
          /\ used[i] \subseteq Credentials
          /\ nsign[i] \in 0..MaxSigns
          /\ after[i] \subseteq Invocations
    /\ calls \in 0..MaxCalls

(***************************************************************************)
(* The properties.                                                         *)
(***************************************************************************)
InFlight(i) == pc[i] \notin {"idle", "done"}
Succeeded(i) == pc[i] = "done" /\ result[i].err = Nil /\ result[i].tok # <<>>
Tok(i) == result[i].tok[1]
InitialTarget(i) == start[i] + DefaultExpiration
Min(S) == CHOOSE m \in S : \A x \in S : m <= x

\* C1: the Expiry of every token Token() returns is at most the start of
\* the call plus DefaultExpiration, and at most the Expires of every
\* credential set with CanExpire and a non-zero Expires that a signing call
\* of the invocation was given.
C1_ExpiryBounded ==
    \A i \in Invocations :
        Succeeded(i) =>
            /\ Tok(i).Expiry <= InitialTarget(i)
            /\ \A c \in used[i] :
                  (c.CanExpire /\ c.Expires # ZeroTime) => Tok(i).Expiry <= c.Expires

\* a token signed twice, once with credentials that expire before the
\* default target
C1_Witness ==
    \E i \in Invocations :
        /\ Succeeded(i)
        /\ Cardinality(used[i]) = 2
        /\ \E c \in used[i] :
              c.CanExpire /\ c.Expires # ZeroTime /\ c.Expires < InitialTarget(i)

\* C2 as stated: when signing calls were given credentials with CanExpire
\* and an Expires earlier than the start of the call plus DefaultExpiration,
\* the token's Expiry is the earliest such Expires.
C2_Original ==
    \A i \in Invocations :
        LET early == {c.Expires : c \in {d \in used[i] :
                         d.CanExpire /\ d.Expires < InitialTarget(i)}}
        IN (Succeeded(i) /\ early # {}) => Tok(i).Expiry = Min(early)

\* C2, amended: when signing calls were given credentials with CanExpire
\* and a non-zero Expires earlier than the start of the call plus
\* DefaultExpiration, the token's Expiry is the earliest such Expires,
\* whatever the order and number of the signing calls; and no signing call
\* leaves the target later than it found it.
C2_EarliestExpires ==
    \A i \in Invocations :
        LET early == {c.Expires : c \in {d \in used[i] :
                         /\ d.CanExpire
                         /\ d.Expires # ZeroTime
                         /\ d.Expires < InitialTarget(i)}}
        IN /\ (Succeeded(i) /\ early # {}) => Tok(i).Expiry = Min(early)
           /\ pc[i] \in {"delegate", "signed"} =>
                 cell[expiry[i]] <= frame[i].before

\* a token whose second signing call used credentials that expire later
\* than those of the first
C2_Witness ==
    \E i \in Invocations :
        /\ Succeeded(i)
        /\ \E c, d \in used[i] :
              /\ c.CanExpire /\ d.CanExpire
              /\ c.Expires # ZeroTime
              /\ c.Expires < d.Expires
              /\ d.Expires < InitialTarget(i)
              /\ Tok(i).Expiry = c.Expires

\* C3: when every credential set given to a signing call has CanExpire
\* false, or a zero Expires, or an Expires later than the start of the call
\* plus DefaultExpiration, the token's Expiry is exactly the start of the
\* call plus DefaultExpiration.
C3_DefaultExpiry ==
    \A i \in Invocations :
        (/\ Succeeded(i)
         /\ \A c \in used[i] :
               \/ ~c.CanExpire
               \/ c.Expires = ZeroTime
               \/ c.Expires > InitialTarget(i))
        => Tok(i).Expiry = InitialTarget(i)

\* a token signed with static credentials that carry an early Expires and
\* with expiring credentials that have no Expires
C3_Witness ==
    \E i \in Invocations :
        /\ Succeeded(i)
        /\ Tok(i).Expiry = InitialTarget(i)
        /\ \E c \in used[i] :
              ~c.CanExpire /\ c.Expires # ZeroTime /\ c.Expires < InitialTarget(i)
        /\ \E c \in used[i] : c.CanExpire /\ c.Expires = ZeroTime

\* the characters of the URL-safe alphabet
URLSafe == (65..90) \cup (97..122) \cup (48..57) \cup {45, 95}

\* C4: the AccessToken of every token is "k8s-aws-v1." followed by the
\* unpadded base64url text of the URI the client returned: the rest has
\* the length of an unpadded encoding, only URL-safe characters, no '=',
\* and decodes to the URI.
C4_TokenFormat ==
    \A i \in Invocations :
        Succeeded(i) =>
            LET t == Tok(i).AccessToken
                n == Len(cret[i].URL)
                rest == SubSeq(t, Len(TokenPrefix) + 1, Len(t))
            IN /\ Len(t) = Len(TokenPrefix) + ((4 * n + 2) \div 3)
               /\ SubSeq(t, 1, Len(TokenPrefix)) = TokenPrefix
               /\ \A k \in 1..Len(rest) : rest[k] \in URLSafe /\ rest[k] # PadChar
               /\ DecodeString(rest) = cret[i].URL

\* a token of a URI whose length is not a multiple of three and whose
\* encoding uses both characters that differ from the standard alphabet
C4_Witness ==
    \E i \in Invocations :
        /\ Succeeded(i)
        /\ Len(cret[i].URL) % 3 = 1
        /\ \E k, l \in 1..Len(Tok(i).AccessToken) :
              /\ k > Len(TokenPrefix) /\ l > Len(TokenPrefix)
              /\ Tok(i).AccessToken[k] = 45
              /\ Tok(i).AccessToken[l] = 95

\* C5: the request every signing call is given carries X-K8s-Aws-Id with
\* the ClusterName and X-Amz-Expires with "60", whatever the ClusterName;
\* and Token() fails only when the client does.
C5_SignedHeaders ==
    \A i \in Invocations :
        /\ pc[i] \in {"delegate", "signed"} =>
              /\ frame[i].r["X-K8s-Aws-Id"] = <<ts.ClusterName>>
              /\ frame[i].r["X-Amz-Expires"] = <<Sixty>>
        /\ (pc[i] = "done" /\ cret[i].err = Nil) => Succeeded(i)

\* a request signed for the empty ClusterName
C5_Witness ==
    \E i \in Invocations :
        /\ ts.ClusterName = <<>>
        /\ pc[i] = "signed"
        /\ frame[i].ret.err = Nil
        /\ frame[i].r["X-K8s-Aws-Id"] = << <<>> >>

C8_Isolation ==
    /\ [](\A i \in Invocations :
            /\ pc[i] \in {"options", "build", "sign"} =>
                  cell[expiry[i]] = InitialTarget(i)
            /\ \A j \in Invocations \ {i} :
                  (InFlight(i) /\ InFlight(j)) => expiry[i] # expiry[j]
            /\ Succeeded(i) =>
                  Tok(i).Expiry =
                     Min({InitialTarget(i)} \cup
                         {c.Expires : c \in {d \in used[i] :
                             d.CanExpire /\ d.Expires # ZeroTime}}))
    /\ [][/\ ts' = ts
          /\ \A i \in Invocations :
                (InFlight(i) /\ pc'[i] = pc[i]) =>
                    cell'[expiry'[i]] = cell[expiry[i]]]_vars

\* two invocations in flight: one has lowered its target, the other, which
\* started no later, still has its initial target
C8_Witness ==
    \E i, j \in Invocations :
        /\ i # j
        /\ pc[i] = "signed" /\ frame[i].writes = 1
        /\ pc[j] \in {"sign", "delegate", "signed"}
        /\ cell[expiry[j]] = InitialTarget(j)
        /\ cell[expiry[i]] < cell[expiry[j]]

C10_Original ==
    \A i \in Invocations :
        pc[i] \in {"delegate", "signed"} => frame[i].writes = 1

\* C10, amended: every PresignHTTP call writes the target at most once:
\* once, with the credentials' Expires, when the credentials have CanExpire
\* and a non-zero Expires earlier than the target, and not at all
\* otherwise; the write is done when the delegate is called, and the cell
\* Token() reads holds the value.
C10_AtMostOneWrite ==
    \A i \in Invocations :
        pc[i] \in {"delegate", "signed"} =>
            LET c == frame[i].credentials
                lowered == /\ c.CanExpire
                           /\ c.Expires # ZeroTime
                           /\ c.Expires < frame[i].before
            IN /\ frame[i].writes = (IF lowered THEN 1 ELSE 0)
               /\ cell[expiry[i]] = (IF lowered THEN c.Expires ELSE frame[i].before)
               /\ pc[i] = "delegate" => ~frame[i].delegated

\* a signing call that wrote the target, about to delegate, after one in
\* the same invocation that did not
C10_Witness ==
    \E i \in Invocations :
        /\ pc[i] = "delegate"
        /\ nsign[i] = 2
        /\ frame[i].writes = 1
        /\ frame[i].before = InitialTarget(i)
        /\ cell[expiry[i]] = frame[i].credentials.Expires

====
